---- MODULE Spec2Model ----
(***************************************************************************)
(* Model of pop_db.py: DatabaseFeeder.populate and the generators of       *)
(* RandomDataGenerator it drives, against a relational store.              *)
(*                                                                         *)
(* The store assigns serial identifiers 1, 2, ... per table and never      *)
(* deletes, so a table is a sequence of rows indexed by identifier (or a   *)
(* row count where the rows carry no foreign key).  SELECT returns rows in *)
(* identifier order.  Fake names, dates, prices and flags are left out;    *)
(* every foreign-key column is kept.                                       *)
(*                                                                         *)
(* The random module is modelled as bounded nondeterminism: a draw is      *)
(* either the default one (first element of random.choice, identity of     *)
(* random.shuffle, kept element of the staff mask, statement accepted by   *)
(* the gateway) or one of a few alternatives, and a behaviour contains at  *)
(* most MaxDraws non-default draws.                                        *)
(***************************************************************************)
EXTENDS Integers, Sequences, FiniteSets, TLC

\* Python None / SQL NULL; the store's identifiers start at 1.
None == 0

\* ---- bounds of the model ----
MaxSize == 3
MaxRuns == 2
MaxDraws == 1
MaxPick == 1
MaxShift == 1
MaxFailAt == 1

\* ---- program constants ----
NPizzerias == 5
PadNones == 5
MinAddresses == 5
NRecipes == 23
NProducts == 35
NOrderStatus == 4
NKeywords == 35
NPermissions == 5
NRoles == 5

VARIABLES
    db,        \* the store: one field per table / association relation
    db0,       \* the store as it stood when the current run started
    pool,      \* the DatabaseFeeder attributes (Reference Pool)
    captured,  \* names of the DatabaseFeeder attributes that have been set
    pc,        \* index in Stages of the next stage of populate
    err,       \* "none", or the exception that ended the run
    size,      \* DatabaseFeeder.size
    run,       \* number of the current run against the store
    draws,     \* non-default draws left in this behaviour
    cb,        \* index in Callbacks of the current association callback
    att,       \* attempts already made by the current callback (loop i)
    assoc,     \* per relation: attempts, duplicates, swallowed, last outcome
    updates    \* UPDATE member statements issued in this run, per column

vars == <<db, db0, pool, captured, pc, err, size, run, draws, cb, att,
          assoc, updates>>

\* ---- sequences ----
Min(a, b) == IF a < b THEN a ELSE b

Range(s) == {s[i] : i \in 1..Len(s)}

Ids(n) == [i \in 1..n |-> i]

Prefix(s, k) == SubSeq(s, 1, k)

Rev(s) == [i \in 1..Len(s) |-> s[Len(s) + 1 - i]]

Rot(s, k) == [i \in 1..Len(s) |-> s[((i - 1 + k) % Len(s)) + 1]]

Repeat(x, n) == [i \in 1..n |-> x]

\* random.shuffle(s): the orders the model draws from; s itself is the
\* default draw.
Shuffles(s) ==
    {s, Rev(s)} \cup {Rot(s, k) : k \in 1..Min(MaxShift, Len(s) - 1)}

ShuffleCost(s, t) == IF t = s THEN 0 ELSE 1

\* random.choice(s): the positions the model draws from; position 1 is the
\* default draw.
PickIdx(s) == {i \in 1..Len(s) : i <= MaxPick \/ i = Len(s)}

PickCost(i) == IF i = 1 THEN 0 ELSE 1

RECURSIVE SumSeq(_)
SumSeq(s) == IF s = <<>> THEN 0 ELSE s[1] + SumSeq(Tail(s))

\* The draws of one generator call: n tuples of positions, one tuple per
\* generated row, with at most d non-default positions in all.
TupleCost(t) == SumSeq([i \in 1..Len(t) |-> PickCost(t[i])])

RECURSIVE Picks(_, _, _)
Picks(n, opts, d) ==
    IF n = 0 THEN {<<>>}
    ELSE UNION {{<<o>> \o rest : rest \in Picks(n - 1, opts, d - TupleCost(o))} :
                o \in {x \in opts : TupleCost(x) <= d}}

PicksCost(ps) == SumSeq([i \in 1..Len(ps) |-> TupleCost(ps[i])])

\* Statement counts at which the gateway may raise during a stage of n
\* statements (n itself: the trailing SELECT raises).
FailAt(n) == {k \in 0..n : k <= MaxFailAt \/ k = n}


\* Variant of Stages: the order statuses are inserted after the orders
\* that draw from them.
Stages_StatusAfterOrders ==
    << "insert_addresses", "insert_pizzerias", "insert_members",
       "insert_user_accounts", "update_members_user_account",
       "insert_recipes", "insert_products", "insert_catalog_items",
       "insert_taken_orders", "insert_order_status", "insert_bills",
       "insert_keywords", "insert_permissions", "insert_roles",
       "update_members_role", "insert_relations_many_to_many" >>

\* Variant of Stages: both UPDATE batches are issued together, once the
\* roles exist.
Stages_UpdatesTogether ==
    << "insert_addresses", "insert_pizzerias", "insert_members",
       "insert_user_accounts", "insert_recipes", "insert_products",
       "insert_catalog_items", "insert_order_status", "insert_taken_orders",
       "insert_bills", "insert_keywords", "insert_permissions",
       "insert_roles", "update_members_user_account",
       "update_members_role", "insert_relations_many_to_many" >>

\* ---- DatabaseFeeder.populate: the stages in program order ----
Stages ==
    << "insert_addresses", "insert_pizzerias", "insert_members",
       "insert_user_accounts", "update_members_user_account",
       "insert_recipes", "insert_products", "insert_catalog_items",
       "insert_order_status", "insert_taken_orders", "insert_bills",
       "insert_keywords", "insert_permissions", "insert_roles",
       "update_members_role", "insert_relations_many_to_many" >>

END == Len(Stages) + 1

StageIdx(name) == CHOOSE k \in 1..Len(Stages) : Stages[k] = name

\* The DatabaseFeeder attributes each stage reads (self.<attr>).
Reads(name) ==
    CASE name = "insert_pizzerias" -> {"address_ids"}
      [] name = "insert_members" -> {"address_ids", "pizzeria_ids"}
      [] name = "insert_user_accounts" -> {"member_ids"}
      [] name = "update_members_user_account" -> {"user_accounts"}
      [] name = "insert_catalog_items" -> {"recipes"}
      [] name = "insert_taken_orders" ->
            {"member_ids", "address_ids", "pizzeria_ids", "order_status_ids"}
      [] name = "insert_bills" -> {"taken_order_ids"}
      [] name = "update_members_role" -> {"role_ids"}
      [] name = "insert_relations_many_to_many" ->
            {"role_ids", "permission_ids", "taken_order_ids",
             "catalog_item_ids", "recipes", "product_ids", "pizzeria_ids",
             "keyword_ids"}
      [] OTHER -> {}

\* The DatabaseFeeder attribute each stage assigns from its trailing SELECT.
Captures(name) ==
    CASE name = "insert_addresses" -> {"address_ids"}
      [] name = "insert_pizzerias" -> {"pizzeria_ids"}
      [] name = "insert_members" -> {"member_ids"}
      [] name = "insert_user_accounts" -> {"user_accounts"}
      [] name = "insert_recipes" -> {"recipes"}
      [] name = "insert_products" -> {"product_ids"}
      [] name = "insert_catalog_items" -> {"catalog_item_ids"}
      [] name = "insert_order_status" -> {"order_status_ids"}
      [] name = "insert_taken_orders" -> {"taken_order_ids"}
      [] name = "insert_keywords" -> {"keyword_ids"}
      [] name = "insert_permissions" -> {"permission_ids"}
      [] name = "insert_roles" -> {"role_ids"}
      [] OTHER -> {}

\* ---- the store ----
Relations ==
    << "has_permission_to", "contains_item", "requires_product",
       "has_product_in_stock", "has_keyword" >>

EmptyDb ==
    [address |-> 0, pizzeria |-> <<>>, member |-> <<>>,
     user_account |-> <<>>, recipe |-> <<>>, product |-> 0,
     catalog_item |-> <<>>, order_status |-> 0, taken_order |-> <<>>,
     bill |-> <<>>, keyword |-> 0, permission |-> 0, role |-> 0,
     has_permission_to |-> <<>>, contains_item |-> <<>>,
     requires_product |-> <<>>, has_product_in_stock |-> <<>>,
     has_keyword |-> <<>>]

\* A DatabaseFeeder right after __init__: no pool attribute is set yet.
EmptyPool ==
    [address_ids |-> <<>>, pizzeria_ids |-> <<>>, member_ids |-> <<>>,
     user_accounts |-> <<>>, recipes |-> <<>>, product_ids |-> <<>>,
     catalog_item_ids |-> <<>>, order_status_ids |-> <<>>,
     taken_order_ids |-> <<>>, keyword_ids |-> <<>>,
     permission_ids |-> <<>>, role_ids |-> <<>>]

NoAssoc ==
    [r \in 1..Len(Relations) |->
        [attempts |-> 0, duplicates |-> 0, swallowed |-> 0, last |-> "none"]]

NoUpdates == [user_account_id |-> 0, role_id |-> 0]

\* {key: value for row in rows}: keys keep the position of their first
\* occurrence and the value of their last one.  rows is a sequence of
\* <<key, value>>.
\* Variant of DictOf: a key keeps the value of its first occurrence.
DictOf_FirstWins(rows) ==
    LET firsts == SelectSeq(Ids(Len(rows)),
                     LAMBDA i : \A j \in 1..(i - 1) : rows[j][1] # rows[i][1])
    IN  [n \in 1..Len(firsts) |-> rows[firsts[n]]]

DictOf(rows) ==
    LET first(i) == \A j \in 1..(i - 1) : rows[j][1] # rows[i][1]
        last(i) == CHOOSE j \in i..Len(rows) :
                      /\ rows[j][1] = rows[i][1]
                      /\ \A l \in (j + 1)..Len(rows) : rows[l][1] # rows[i][1]
    IN  SelectSeq([i \in 1..Len(rows) |->
                      IF first(i) THEN <<rows[i][1], rows[last(i)][2]>>
                      ELSE <<>>],
                  LAMBDA kv : kv # <<>>)

Init ==
    /\ db = EmptyDb
    /\ db0 = EmptyDb
    /\ pool = EmptyPool
    /\ captured = {}
    /\ pc = 1
    /\ err = "none"
    /\ size \in 0..MaxSize
    /\ run = 1
    /\ draws = MaxDraws
    /\ cb = 1
    /\ att = 0
    /\ assoc = NoAssoc
    /\ updates = NoUpdates

\* ---- the gateway ----
\* Outcomes of a stage that issues n statements and a trailing SELECT:
\* everything is accepted, or the gateway raises after k statements.
Faults(n) ==
    {[k |-> n, ok |-> TRUE]} \cup {[k |-> k, ok |-> FALSE] : k \in FailAt(n)}

\* The same for a stage without trailing SELECT.
FaultsNoSelect(n) == {f \in Faults(n) : f.ok \/ f.k < n}

FaultCost(f) == IF f.ok THEN 0 ELSE 1

\* Variant of Running: populate catches the exception of a stage and goes
\* on from where it stood.
Running_IgnoresError(name) ==
    /\ pc <= Len(Stages)
    /\ Stages[pc] = name

Running(name) ==
    /\ err = "none"
    /\ pc <= Len(Stages)
    /\ Stages[pc] = name

\* The stage returns: its SELECT result is assigned and populate goes on.
\* Variant of Advance: populate calls the stage that just returned again.
Advance_SameStage(name, newDb, newPool) ==
    /\ db' = newDb
    /\ pool' = newPool
    /\ captured' = captured \cup Captures(name)
    /\ pc' = pc
    /\ err' = "none"

Advance(name, newDb, newPool) ==
    /\ db' = newDb
    /\ pool' = newPool
    /\ captured' = captured \cup Captures(name)
    /\ pc' = pc + 1
    /\ err' = "none"

\* The stage raises e: populate, and with it the process, stops there.
Raise(e, newDb, newPool, newCaptured) ==
    /\ db' = newDb
    /\ pool' = newPool
    /\ captured' = newCaptured
    /\ pc' = pc
    /\ err' = e

\* self.<attr> of an attribute never assigned raises AttributeError.
Unset(name) == ~(Reads(name) \subseteq captured)

\* The end of one insert stage under gateway outcome f: its generator made
\* cost non-default draws and left the pools as genPool; newDb is the store
\* after the first f.k rows, capPool the pools after the trailing SELECT.
InsertStage(name, f, cost, genPool, newDb, capPool) ==
    /\ cost + FaultCost(f) <= draws
    /\ draws' = draws - cost - FaultCost(f)
    /\ IF f.ok
       THEN Advance(name, newDb, capPool)
       ELSE Raise("DatabaseError", newDb, genPool, captured)
    /\ UNCHANGED <<db0, size, run, cb, att, assoc, updates>>

AttributeError(name) ==
    /\ Unset(name)
    /\ Raise("AttributeError", db, pool, captured)
    /\ UNCHANGED <<db0, size, run, draws, cb, att, assoc, updates>>

ValueError(genPool) ==
    /\ Raise("ValueError", db, genPool, captured)
    /\ UNCHANGED <<db0, size, run, draws, cb, att, assoc, updates>>

\* ---- RandomDataGenerator.addresses / _insert_addresses ----
\* Variant of addresses: range(size + 1).
addresses_OneMore(n) == Repeat("address", n + 1)

addresses(n) == Repeat("address", n)

InsertAddresses ==
    /\ Running("insert_addresses")
    /\ \E f \in Faults(Len(addresses(size))) :
        LET newDb == [db EXCEPT !.address = @ + f.k]
        IN  InsertStage("insert_addresses", f, 0, pool, newDb,
                [pool EXCEPT !.address_ids = Ids(newDb.address)])

\* ---- RandomDataGenerator.pizzerias / _insert_pizzerias ----
\* The generator extends and shuffles the caller's list in place.
\* Variant of pizzerias: the list is padded and shuffled whatever its
\* length.
pizzerias_AlwaysPads(address_ids) ==
    LET padded == address_ids \o Repeat(None, PadNones)
    IN  {[address_ids |-> t,
          rows |-> [i \in 1..NPizzerias |-> t[i]],
          cost |-> ShuffleCost(padded, t)] : t \in Shuffles(padded)}

pizzerias(address_ids) ==
    IF Len(address_ids) < MinAddresses
    THEN LET padded == address_ids \o Repeat(None, PadNones)
         IN  {[address_ids |-> t,
               rows |-> [i \in 1..NPizzerias |-> t[i]],
               cost |-> ShuffleCost(padded, t)] : t \in Shuffles(padded)}
    ELSE {[address_ids |-> address_ids,
           rows |-> [i \in 1..NPizzerias |-> address_ids[i]],
           cost |-> 0]}

InsertPizzerias ==
    /\ Running("insert_pizzerias")
    /\ IF Unset("insert_pizzerias")
       THEN AttributeError("insert_pizzerias")
       ELSE \E g \in pizzerias(pool.address_ids) :
             \E f \in Faults(Len(g.rows)) :
               LET genPool == [pool EXCEPT !.address_ids = g.address_ids]
                   newDb == [db EXCEPT !.pizzeria = @ \o Prefix(g.rows, f.k)]
               IN  InsertStage("insert_pizzerias", f, g.cost, genPool, newDb,
                       [genPool EXCEPT !.pizzeria_ids =
                           Ids(Len(newDb.pizzeria))])

\* ---- RandomDataGenerator.members / _insert_members ----
FakeMember(pizzeria_id, address_id) ==
    [works_at_pizzeria_id |-> pizzeria_id, user_account_id |-> None,
     address_id |-> address_id, role_id |-> None]

\* pizzeria_ids = [random.choice((None, i)) for i in pizzeria_ids]: only the
\* positions random.choice can then draw from are enumerated.
members(address_ids, pizzeria_ids, n, d) ==
    IF Len(address_ids) < n
    THEN {[error |-> "ValueError", address_ids |-> address_ids,
           rows |-> <<>>, cost |-> 0]}
    ELSE {[error |-> "none", address_ids |-> t,
           rows |-> [i \in 1..n |->
                       FakeMember(IF pick[i][1] \in dropped THEN None
                                  ELSE pizzeria_ids[pick[i][1]], t[i])],
           cost |-> ShuffleCost(address_ids, t) + Cardinality(dropped)
                    + PicksCost(pick)] :
           t \in Shuffles(address_ids),
           dropped \in SUBSET PickIdx(pizzeria_ids),
           pick \in Picks(n, {<<i>> : i \in PickIdx(pizzeria_ids)}, d)}

InsertMembers ==
    /\ Running("insert_members")
    /\ IF Unset("insert_members")
       THEN AttributeError("insert_members")
       ELSE \E g \in members(pool.address_ids, pool.pizzeria_ids, size,
                                 draws) :
               LET genPool == [pool EXCEPT !.address_ids = g.address_ids]
               IN  IF g.error # "none"
                   THEN ValueError(genPool)
                   ELSE \E f \in Faults(Len(g.rows)) :
                         LET newDb == [db EXCEPT !.member =
                                          @ \o Prefix(g.rows, f.k)]
                         IN  InsertStage("insert_members", f, g.cost, genPool,
                                 newDb,
                                 [genPool EXCEPT !.member_ids =
                                     Ids(Len(newDb.member))])

\* ---- RandomDataGenerator.user_accounts / _insert_user_accounts ----
FakeUserAccount(member_id) == [member_id |-> member_id]

\* Variant of user_accounts: no length check, the rows stop when the pool
\* is exhausted.
user_accounts_Truncating(member_ids, n) ==
    {[error |-> "none", member_ids |-> t,
      rows |-> [i \in 1..Min(n, Len(t)) |-> FakeUserAccount(t[i])],
      cost |-> ShuffleCost(member_ids, t)] : t \in Shuffles(member_ids)}

user_accounts(member_ids, n) ==
    IF Len(member_ids) < n
    THEN {[error |-> "ValueError", member_ids |-> member_ids,
           rows |-> <<>>, cost |-> 0]}
    ELSE {[error |-> "none", member_ids |-> t,
           rows |-> [i \in 1..n |-> FakeUserAccount(t[i])],
           cost |-> ShuffleCost(member_ids, t)] : t \in Shuffles(member_ids)}

InsertUserAccounts ==
    /\ Running("insert_user_accounts")
    /\ IF Unset("insert_user_accounts")
       THEN AttributeError("insert_user_accounts")
       ELSE \E g \in user_accounts(pool.member_ids, size) :
               LET genPool == [pool EXCEPT !.member_ids = g.member_ids]
               IN  IF g.error # "none"
                   THEN ValueError(genPool)
                   ELSE \E f \in Faults(Len(g.rows)) :
                         LET newDb == [db EXCEPT !.user_account =
                                          @ \o Prefix(g.rows, f.k)]
                         IN  InsertStage("insert_user_accounts", f, g.cost,
                                 genPool, newDb,
                                 [genPool EXCEPT !.user_accounts =
                                     DictOf([i \in 1..Len(newDb.user_account)
                                        |-> <<newDb.user_account[i].member_id,
                                              i>>])])

\* ---- UPDATE member SET <column> = <value> WHERE id = <member_id> ----
ExecUpdate(tbl, u) ==
    IF u.member_id \in DOMAIN tbl
    THEN [tbl EXCEPT ![u.member_id] =
            IF u.column = "user_account_id"
            THEN [@ EXCEPT !.user_account_id = u.value]
            ELSE [@ EXCEPT !.role_id = u.value]]
    ELSE tbl

RECURSIVE ExecUpdates(_, _)
ExecUpdates(tbl, us) ==
    IF us = <<>> THEN tbl
    ELSE ExecUpdates(ExecUpdate(tbl, Head(us)), Tail(us))

\* One update stage issuing the statements us in order.
UpdateStage(name, column, us, cost, faults) ==
    \E f \in faults :
        /\ cost + FaultCost(f) <= draws
        /\ draws' = draws - cost - FaultCost(f)
        /\ updates' = [updates EXCEPT ![column] = @ + f.k]
        /\ LET newDb == [db EXCEPT !.member = ExecUpdates(@, Prefix(us, f.k))]
           IN  IF f.ok
               THEN Advance(name, newDb, pool)
               ELSE Raise("DatabaseError", newDb, pool, captured)
        /\ UNCHANGED <<db0, size, run, cb, att, assoc>>

\* ---- _update_members_user_account ----
UpdateMembersUserAccount ==
    /\ Running("update_members_user_account")
    /\ IF Unset("update_members_user_account")
       THEN AttributeError("update_members_user_account")
       ELSE LET us == [i \in 1..Len(pool.user_accounts) |->
                         [member_id |-> pool.user_accounts[i][1],
                          column |-> "user_account_id",
                          value |-> pool.user_accounts[i][2]]]
            IN  UpdateStage("update_members_user_account",
                    "user_account_id", us, 0, FaultsNoSelect(Len(us)))

\* ---- RandomDataGenerator.recipes / _insert_recipes ----
\* Variant of recipes: the last name of the list is missing.
recipes_WithoutLast == [i \in 1..(NRecipes - 1) |-> [name |-> i]]

recipes == [i \in 1..NRecipes |-> [name |-> i]]

InsertRecipes ==
    /\ Running("insert_recipes")
    /\ \E f \in Faults(Len(recipes)) :
        \E newDb \in {[db EXCEPT !.recipe = @ \o Prefix(recipes, f.k)]} :
            InsertStage("insert_recipes", f, 0, pool, newDb,
                [pool EXCEPT !.recipes =
                    DictOf([i \in 1..Len(newDb.recipe) |->
                              <<newDb.recipe[i].name, i>>])])

\* ---- RandomDataGenerator.products / _insert_products ----
products == Repeat("product", NProducts)

\* The SELECT sits inside the loop: product_ids is assigned after each
\* INSERT, so a failure leaves the result of the last SELECT that ran.
InsertProducts ==
    /\ Running("insert_products")
    /\ \E f \in Faults(Len(products)) :
        LET seen == IF f.ok THEN f.k
                    ELSE IF f.k = Len(products) THEN f.k - 1 ELSE f.k
            newDb == [db EXCEPT !.product = @ + f.k]
            newPool == IF seen = 0 THEN pool
                       ELSE [pool EXCEPT !.product_ids =
                                Ids(db.product + seen)]
        IN  /\ FaultCost(f) <= draws
            /\ draws' = draws - FaultCost(f)
            /\ IF f.ok
               THEN Advance("insert_products", newDb, newPool)
               ELSE Raise("DatabaseError", newDb, newPool,
                        IF seen = 0 THEN captured
                        ELSE captured \cup Captures("insert_products"))
            /\ UNCHANGED <<db0, size, run, cb, att, assoc, updates>>

\* ---- FakeCatalogItem / RandomDataGenerator.catalog_items ----
\* Variant of FakeCatalogItem: the product branch does not reset recipe_id.
FakeCatalogItem_BothParents(parent, parent_id) ==
    IF parent = "recipe"
    THEN [error |-> "none", recipe_id |-> parent_id, product_id |-> None]
    ELSE IF parent = "product"
    THEN [error |-> "none", recipe_id |-> parent_id, product_id |-> parent_id]
    ELSE [error |-> "AttributeError", recipe_id |-> None,
          product_id |-> None]

FakeCatalogItem(parent, parent_id) ==
    IF parent = "recipe"
    THEN [error |-> "none", recipe_id |-> parent_id, product_id |-> None]
    ELSE IF parent = "product"
    THEN [error |-> "none", recipe_id |-> None, product_id |-> parent_id]
    ELSE [error |-> "AttributeError", recipe_id |-> None,
          product_id |-> None]

catalog_items(recipe_dict) ==
    [i \in 1..Len(recipe_dict) |-> FakeCatalogItem("recipe", recipe_dict[i][2])]

InsertCatalogItems ==
    /\ Running("insert_catalog_items")
    /\ IF Unset("insert_catalog_items")
       THEN AttributeError("insert_catalog_items")
       ELSE LET rows == catalog_items(pool.recipes)
            IN  \E f \in Faults(Len(rows)) :
                  LET newDb == [db EXCEPT !.catalog_item =
                                   @ \o [i \in 1..f.k |->
                                       [recipe_id |-> rows[i].recipe_id,
                                        product_id |-> rows[i].product_id]]]
                  IN  InsertStage("insert_catalog_items", f, 0, pool, newDb,
                          [pool EXCEPT !.catalog_item_ids =
                              Ids(Len(newDb.catalog_item))])

\* ---- RandomDataGenerator.order_status / _insert_order_status ----
order_status == Repeat("status", NOrderStatus)

InsertOrderStatus ==
    /\ Running("insert_order_status")
    /\ \E f \in Faults(Len(order_status)) :
        LET newDb == [db EXCEPT !.order_status = @ + f.k]
        IN  InsertStage("insert_order_status", f, 0, pool, newDb,
                [pool EXCEPT !.order_status_ids = Ids(newDb.order_status)])

\* ---- FakeTakenOrder / RandomDataGenerator.taken_orders ----
FakeTakenOrder(member_id, address_id, pizzeria_id, status_id) ==
    [member_id |-> member_id, address_id |-> address_id,
     pizzeria_id |-> pizzeria_id, status_id |-> status_id, bill_id |-> None]

taken_orders(member_ids, address_ids, pizzeria_ids, status_ids, n, d) ==
    IF Len(member_ids) < n
    THEN {[error |-> "ValueError", member_ids |-> member_ids,
           address_ids |-> address_ids, rows |-> <<>>, cost |-> 0]}
    ELSE IF Len(address_ids) < n
    THEN {[error |-> "ValueError", member_ids |-> member_ids,
           address_ids |-> address_ids, rows |-> <<>>, cost |-> 0]}
    ELSE IF n > 0 /\ (pizzeria_ids = <<>> \/ status_ids = <<>>)
    THEN {[error |-> "IndexError", member_ids |-> tm, address_ids |-> ta,
           rows |-> <<>>,
           cost |-> ShuffleCost(member_ids, tm) + ShuffleCost(address_ids, ta)] :
           tm \in Shuffles(member_ids), ta \in Shuffles(address_ids)}
    ELSE {[error |-> "none", member_ids |-> tm, address_ids |-> ta,
           rows |-> [i \in 1..n |->
                       FakeTakenOrder(tm[pick[i][1]], ta[pick[i][2]],
                                      pizzeria_ids[pick[i][3]],
                                      status_ids[pick[i][4]])],
           cost |-> ShuffleCost(member_ids, tm) + ShuffleCost(address_ids, ta)
                    + PicksCost(pick)] :
           tm \in Shuffles(member_ids), ta \in Shuffles(address_ids),
           pick \in Picks(n, PickIdx(member_ids) \X PickIdx(address_ids)
                                \X PickIdx(pizzeria_ids)
                                \X PickIdx(status_ids), d)}

InsertTakenOrders ==
    /\ Running("insert_taken_orders")
    /\ IF Unset("insert_taken_orders")
       THEN AttributeError("insert_taken_orders")
       ELSE \E g \in taken_orders(pool.member_ids, pool.address_ids,
                        pool.pizzeria_ids, pool.order_status_ids, size,
                        draws) :
               LET genPool == [pool EXCEPT !.member_ids = g.member_ids,
                                           !.address_ids = g.address_ids]
               IN  IF g.error = "ValueError"
                   THEN ValueError(genPool)
                   ELSE IF g.error # "none"
                   THEN /\ g.cost <= draws
                        /\ draws' = draws - g.cost
                        /\ Raise(g.error, db, genPool, captured)
                        /\ UNCHANGED <<db0, size, run, cb, att, assoc, updates>>
                   ELSE \E f \in Faults(Len(g.rows)) :
                         LET newDb == [db EXCEPT !.taken_order =
                                          @ \o Prefix(g.rows, f.k)]
                         IN  InsertStage("insert_taken_orders", f, g.cost,
                                 genPool, newDb,
                                 [genPool EXCEPT !.taken_order_ids =
                                     Ids(Len(newDb.taken_order))])

\* ---- FakeBill / RandomDataGenerator.bills / _insert_bills ----
FakeBill(order_id) == [order_id |-> order_id]

bills(taken_order_ids, n) ==
    IF Len(taken_order_ids) < n
    THEN [error |-> "ValueError", rows |-> <<>>]
    ELSE [error |-> "none",
          rows |-> [i \in 1..n |-> FakeBill(taken_order_ids[i])]]

InsertBills ==
    /\ Running("insert_bills")
    /\ IF Unset("insert_bills")
       THEN AttributeError("insert_bills")
       ELSE LET g == bills(pool.taken_order_ids, size)
            IN  IF g.error # "none"
                THEN ValueError(pool)
                ELSE \E f \in FaultsNoSelect(Len(g.rows)) :
                        /\ FaultCost(f) <= draws
                        /\ draws' = draws - FaultCost(f)
                        /\ LET newDb == [db EXCEPT !.bill =
                                            @ \o Prefix(g.rows, f.k)]
                           IN  IF f.ok
                               THEN Advance("insert_bills", newDb, pool)
                               ELSE Raise("DatabaseError", newDb, pool,
                                          captured)
                        /\ UNCHANGED <<db0, size, run, cb, att, assoc,
                                       updates>>

\* ---- keywords, permissions, roles ----
keywords == Repeat("keyword", NKeywords)

InsertKeywords ==
    /\ Running("insert_keywords")
    /\ \E f \in Faults(Len(keywords)) :
        LET newDb == [db EXCEPT !.keyword = @ + f.k]
        IN  InsertStage("insert_keywords", f, 0, pool, newDb,
                [pool EXCEPT !.keyword_ids = Ids(newDb.keyword)])

permissions == Repeat("permission", NPermissions)

InsertPermissions ==
    /\ Running("insert_permissions")
    /\ \E f \in Faults(Len(permissions)) :
        LET newDb == [db EXCEPT !.permission = @ + f.k]
        IN  InsertStage("insert_permissions", f, 0, pool, newDb,
                [pool EXCEPT !.permission_ids = Ids(newDb.permission)])

roles == Repeat("role", NRoles)

InsertRoles ==
    /\ Running("insert_roles")
    /\ \E f \in Faults(Len(roles)) :
        LET newDb == [db EXCEPT !.role = @ + f.k]
        IN  InsertStage("insert_roles", f, 0, pool, newDb,
                [pool EXCEPT !.role_ids = Ids(newDb.role)])

\* ---- _update_members_role ----
\* Variant of StaffIds: the WHERE clause is missing.
StaffIds_AllMembers(tbl) == Ids(Len(tbl))

\* SELECT id FROM member WHERE works_at_pizzeria_id IS NOT NULL
StaffIds(tbl) ==
    SelectSeq(Ids(Len(tbl)), LAMBDA i : tbl[i].works_at_pizzeria_id # None)

UpdateMembersRole ==
    /\ Running("update_members_role")
    /\ IF Unset("update_members_role")
       THEN AttributeError("update_members_role")
       ELSE LET staff == StaffIds(db.member)
            IN  IF staff # <<>> /\ pool.role_ids = <<>>
                THEN /\ Raise("IndexError", db, pool, captured)
                     /\ UNCHANGED <<db0, size, run, draws, cb, att, assoc,
                                    updates>>
                ELSE \E pick \in Picks(Len(staff),
                                 {<<i>> : i \in PickIdx(pool.role_ids)},
                                 draws) :
                        UpdateStage("update_members_role", "role_id",
                            [i \in 1..Len(staff) |->
                                [member_id |-> staff[i], column |-> "role_id",
                                 value |-> pool.role_ids[pick[i][1]]]],
                            PicksCost(pick),
                            {f \in Faults(Len(staff)) :
                                f.ok \/ f.k < Len(staff) \/ Len(staff) = 0})

\* ---- _insert_relations_many_to_many and its five callbacks ----
\* The pools a callback samples its composite key from.
KeyPools(r) ==
    CASE r = 1 -> <<pool.role_ids, pool.permission_ids>>
      [] r = 2 -> <<pool.taken_order_ids, pool.catalog_item_ids>>
      [] r = 3 -> <<[i \in 1..Len(pool.recipes) |-> pool.recipes[i][2]],
                    pool.product_ids>>
      [] r = 4 -> <<pool.pizzeria_ids, pool.product_ids>>
      [] r = 5 -> <<pool.catalog_item_ids, pool.keyword_ids>>

\* What the gateway answers to the INSERT of a row with composite key key.
GatewayOutcomes(rel, key) ==
    IF key \in Range(rel) THEN {"duplicate", "error"}
    ELSE {"inserted", "integrity", "error"}

OutcomeCost(o) == IF o \in {"inserted", "duplicate"} THEN 0 ELSE 1

\* except sqlalchemy.exc.IntegrityError: pass
Swallowed(o) == o \in {"duplicate", "integrity"}

\* Variant of AttemptsLeft: the loop runs once too often.
AttemptsLeft_OffByOne == att <= size

\* for i in range(self.size): the loop of the current callback goes on.
AttemptsLeft == att < size

\* One pass of "try: callback() except IntegrityError: pass" for relation r.
Callback(r) ==
    /\ Running("insert_relations_many_to_many")
    /\ ~Unset("insert_relations_many_to_many")
    /\ AttemptsLeft
    /\ LET A == KeyPools(r)[1]
           B == KeyPools(r)[2]
           rel == db[Relations[r]]
       IN  IF A = <<>> \/ B = <<>>
           THEN /\ Raise("IndexError", db, pool, captured)
                /\ UNCHANGED <<att, assoc, draws>>
           ELSE \E i \in PickIdx(A), j \in PickIdx(B) :
                 \E o \in GatewayOutcomes(rel, <<A[i], B[j]>>) :
                   LET cost == PickCost(i) + PickCost(j) + OutcomeCost(o)
                       newDb == IF o = "inserted"
                                THEN [db EXCEPT ![Relations[r]] =
                                        Append(@, <<A[i], B[j]>>)]
                                ELSE db
                   IN  /\ cost <= draws
                       /\ draws' = draws - cost
                       /\ assoc' = [assoc EXCEPT ![r] =
                            [attempts |-> @.attempts + 1,
                             duplicates |-> @.duplicates
                                + (IF o = "duplicate" THEN 1 ELSE 0),
                             swallowed |-> @.swallowed
                                + (IF o = "integrity" THEN 1 ELSE 0),
                             last |-> o]]
                       /\ IF o = "inserted" \/ Swallowed(o)
                          THEN /\ att' = att + 1
                               /\ db' = newDb
                               /\ UNCHANGED <<pool, captured, pc, err>>
                          ELSE /\ att' = att
                               /\ Raise("DatabaseError", db, pool, captured)
    /\ UNCHANGED <<db0, size, run, cb, updates>>

InsertHasPermissionTo ==
    /\ Relations[cb] = "has_permission_to"
    /\ Callback(1)

InsertContainsItem ==
    /\ Relations[cb] = "contains_item"
    /\ Callback(2)

InsertRequiresProduct ==
    /\ Relations[cb] = "requires_product"
    /\ Callback(3)

InsertHasProductInStock ==
    /\ Relations[cb] = "has_product_in_stock"
    /\ Callback(4)

InsertHasKeyword ==
    /\ Relations[cb] = "has_keyword"
    /\ Callback(5)

\* The loop control of _insert_relations_many_to_many: range(self.size) is
\* exhausted for the current callback; go to the next one, or return.
InsertRelationsManyToMany ==
    /\ Running("insert_relations_many_to_many")
    /\ IF Unset("insert_relations_many_to_many")
       THEN /\ AttributeError("insert_relations_many_to_many")
            /\ UNCHANGED <<cb, att>>
       ELSE /\ ~AttemptsLeft
            /\ IF cb < Len(Relations)
               THEN /\ cb' = cb + 1
                    /\ att' = 0
                    /\ UNCHANGED <<db, pool, captured, pc, err>>
               ELSE /\ UNCHANGED <<cb, att>>
                    /\ Advance("insert_relations_many_to_many", db, pool)
            /\ UNCHANGED <<db0, size, run, draws, assoc, updates>>

\* ---- main: another run of the script against the same store ----
NewRun ==
    /\ pc = END \/ err # "none"
    /\ run < MaxRuns
    /\ run' = run + 1
    /\ size' \in 0..MaxSize
    /\ db0' = db
    /\ pool' = EmptyPool
    /\ captured' = {}
    /\ pc' = 1
    /\ err' = "none"
    /\ cb' = 1
    /\ att' = 0
    /\ assoc' = NoAssoc
    /\ updates' = NoUpdates
    /\ UNCHANGED <<db, draws>>

Next ==
    \/ InsertAddresses
    \/ InsertPizzerias
    \/ InsertMembers
    \/ InsertUserAccounts
    \/ UpdateMembersUserAccount
    \/ InsertRecipes
    \/ InsertProducts
    \/ InsertCatalogItems
    \/ InsertOrderStatus
    \/ InsertTakenOrders
    \/ InsertBills
    \/ InsertKeywords
    \/ InsertPermissions
    \/ InsertRoles
    \/ UpdateMembersRole
    \/ InsertHasPermissionTo
    \/ InsertContainsItem
    \/ InsertRequiresProduct
    \/ InsertHasProductInStock
    \/ InsertHasKeyword
    \/ InsertRelationsManyToMany
    \/ NewRun

Spec == Init /\ [][Next]_vars

\* One step of the running process: any statement of populate.
PopulateStep ==
    \/ InsertAddresses
    \/ InsertPizzerias
    \/ InsertMembers
    \/ InsertUserAccounts
    \/ UpdateMembersUserAccount
    \/ InsertRecipes
    \/ InsertProducts
    \/ InsertCatalogItems
    \/ InsertOrderStatus
    \/ InsertTakenOrders
    \/ InsertBills
    \/ InsertKeywords
    \/ InsertPermissions
    \/ InsertRoles
    \/ UpdateMembersRole
    \/ InsertHasPermissionTo
    \/ InsertContainsItem
    \/ InsertRequiresProduct
    \/ InsertHasProductInStock
    \/ InsertHasKeyword
    \/ InsertRelationsManyToMany

\* The interpreter keeps executing a process that has a statement to
\* execute, and the store answers every query; whether the script is
\* started again is up to the user.
FairSpec == Spec /\ WF_vars(PopulateStep)

\* ---- the four sized generators called on pools chosen by the caller ----
\* A store that holds every row a caller's pool can name.
GenStore ==
    [EmptyDb EXCEPT
        !.address = MaxSize,
        !.pizzeria = [i \in 1..NPizzerias |-> None],
        !.member = [i \in 1..MaxSize |-> FakeMember(None, i)],
        !.order_status = NOrderStatus,
        !.taken_order = [i \in 1..MaxSize |-> FakeTakenOrder(i, i, 1, 1)]]

\* The stages whose generator compares len(pool) with size.
SizedStages ==
    {"insert_members", "insert_user_accounts", "insert_taken_orders",
     "insert_bills"}

\* A DatabaseFeeder about to run one of the sized stages, its pools being
\* any lists of identifiers of persisted rows.
GenInit ==
    /\ db = GenStore
    /\ db0 = GenStore
    /\ \E a, m, o \in 0..MaxSize :
        pool = [EmptyPool EXCEPT
                   !.address_ids = Ids(a),
                   !.pizzeria_ids = Ids(NPizzerias),
                   !.member_ids = Ids(m),
                   !.order_status_ids = Ids(NOrderStatus),
                   !.taken_order_ids = Ids(o)]
    /\ pc \in {StageIdx(s) : s \in SizedStages}
    /\ captured = UNION {Captures(Stages[k]) : k \in 1..(pc - 1)}
    /\ err = "none"
    /\ size \in 0..MaxSize
    /\ run = 1
    /\ draws = MaxDraws
    /\ cb = 1
    /\ att = 0
    /\ assoc = NoAssoc
    /\ updates = NoUpdates

GenNext ==
    \/ InsertMembers
    \/ InsertUserAccounts
    \/ InsertTakenOrders
    \/ InsertBills

GenSpec == GenInit /\ [][GenNext]_vars

\* ---- FakeCatalogItem called with a parent chosen by the caller ----
\* The parent kinds a caller passes: the two FakeCatalogItem knows and one
\* it does not.
ParentKinds == {"recipe", "product", "keyword"}

\* populate with size 0 about to run _insert_catalog_items on an empty
\* store.
ItemInit ==
    /\ db = [EmptyDb EXCEPT !.pizzeria = Repeat(None, NPizzerias),
                            !.recipe = recipes,
                            !.product = NProducts]
    /\ db0 = EmptyDb
    /\ pool = [EmptyPool EXCEPT
                  !.address_ids = Repeat(None, PadNones),
                  !.pizzeria_ids = Ids(NPizzerias),
                  !.recipes = DictOf([i \in 1..NRecipes |->
                                        <<recipes[i].name, i>>]),
                  !.product_ids = Ids(NProducts)]
    /\ pc = StageIdx("insert_catalog_items")
    /\ captured = UNION {Captures(Stages[k]) : k \in 1..(pc - 1)}
    /\ err = "none"
    /\ size = 0
    /\ run = 1
    /\ draws = MaxDraws
    /\ cb = 1
    /\ att = 0
    /\ assoc = NoAssoc
    /\ updates = NoUpdates

\* A caller builds FakeCatalogItem(name, parent, parent_id) and inserts the
\* record as _insert_catalog_items does; the exception of the constructor
\* leaves no record to insert.
NewCatalogItem ==
    /\ Running("insert_catalog_items")
    /\ Len(db.catalog_item) < MaxSize
    /\ \E parent \in ParentKinds, i \in PickIdx(pool.product_ids) :
        LET item == FakeCatalogItem(parent, pool.product_ids[i])
        IN  IF item.error = "none"
            THEN /\ db' = [db EXCEPT !.catalog_item =
                              Append(@, [recipe_id |-> item.recipe_id,
                                         product_id |-> item.product_id])]
                 /\ UNCHANGED <<pool, captured, pc, err>>
            ELSE Raise(item.error, db, pool, captured)
    /\ UNCHANGED <<db0, size, run, draws, cb, att, assoc, updates>>

ItemNext ==
    \/ NewCatalogItem
    \/ InsertCatalogItems

ItemSpec == ItemInit /\ [][ItemNext]_vars


\* ---- properties ----
\* The stage name has returned in the current run and nothing ran since.
JustAfter(name) == err = "none" /\ pc = StageIdx(name) + 1

\* The stage name has returned in the current run.
Done(name) == pc > StageIdx(name)

\* Identifiers the store assigned between a table of old and one of new rows.
NewIds(old, new) == (old + 1)..new

NoDuplicates(s) == \A i, j \in 1..Len(s) : i # j => s[i] # s[j]

\* C1: in populate, every pool attribute a stage reads has been captured by
\* a stage that completed earlier in the same run (so no stage ever fails
\* on an attribute that is not set, and what is captured is exactly what the
\* completed stages capture).
C1_ReadsAreCaptured ==
    /\ err # "AttributeError"
    /\ err = "none" =>
        /\ captured = UNION {Captures(Stages[k]) : k \in 1..(pc - 1)}
        /\ pc <= Len(Stages) => Reads(Stages[pc]) \subseteq captured

C1_Witness ==
    /\ run = 2
    /\ size > 0
    /\ err = "none"
    /\ pc = StageIdx("insert_taken_orders")
    /\ Reads("insert_taken_orders") \subseteq captured

\* C2: right after an insert stage, the pool it captured holds exactly the
\* identifiers of the rows that stage inserted in this run.
C2_CaptureIsExact ==
    /\ JustAfter("insert_addresses") =>
        Range(pool.address_ids) = NewIds(db0.address, db.address)
    /\ JustAfter("insert_pizzerias") =>
        Range(pool.pizzeria_ids)
            = NewIds(Len(db0.pizzeria), Len(db.pizzeria))
    /\ JustAfter("insert_members") =>
        Range(pool.member_ids) = NewIds(Len(db0.member), Len(db.member))
    /\ JustAfter("insert_user_accounts") =>
        {pool.user_accounts[i][2] : i \in 1..Len(pool.user_accounts)}
            = NewIds(Len(db0.user_account), Len(db.user_account))
    /\ JustAfter("insert_taken_orders") =>
        Range(pool.taken_order_ids)
            = NewIds(Len(db0.taken_order), Len(db.taken_order))

\* C3: every Member row in the store has a non-null address_id that
\* identifies a persisted Address row.
C3_MemberAddressValid ==
    \A m \in 1..Len(db.member) : db.member[m].address_id \in 1..db.address

\* C4: once _update_members_user_account has run, every Member inserted by
\* this run has a non-null user_account_id, and it identifies a UserAccount
\* whose member_id is that Member.
C4_NewMembersLinked ==
    Done("update_members_user_account") =>
        \A m \in NewIds(Len(db0.member), Len(db.member)) :
            /\ db.member[m].user_account_id \in 1..Len(db.user_account)
            /\ db.user_account[db.member[m].user_account_id].member_id = m

\* C5: after a completed run no Member is the member_id of two UserAccounts.
C5_OneAccountPerMember ==
    pc = END =>
        NoDuplicates([i \in 1..Len(db.user_account) |->
                        db.user_account[i].member_id])

\* C6: after a completed run no TakenOrder is the order_id of two Bills
\* (within a run and across runs).
C6_OneBillPerOrder ==
    pc = END =>
        NoDuplicates([i \in 1..Len(db.bill) |-> db.bill[i].order_id])

\* C7: once _update_members_role has run, every staff Member (non-null
\* works_at_pizzeria_id) has a non-null role_id from the captured role pool
\* and every other Member has a null role_id.
C7_RolesFollowStaff ==
    Done("update_members_role") =>
        \A m \in 1..Len(db.member) :
            IF db.member[m].works_at_pizzeria_id # None
            THEN /\ db.member[m].role_id # None
                 /\ db.member[m].role_id \in Range(pool.role_ids)
            ELSE db.member[m].role_id = None

C7_Witness ==
    /\ Done("update_members_role")
    /\ \E m \in 1..Len(db.member) :
        /\ db.member[m].works_at_pizzeria_id # None
        /\ db.member[m].role_id \in Range(pool.role_ids)
    /\ \E m \in 1..Len(db.member) :
        db.member[m].works_at_pizzeria_id = None

Issued(column) == updates'[column] > updates[column]

\* C8 as stated: no UPDATE of a Member row is issued before both the
\* user-account pool and the role pool have been captured.
C8_UpdatesAfterBothPools ==
    [][(Issued("user_account_id") \/ Issued("role_id")) =>
        {"user_accounts", "role_ids"} \subseteq captured]_vars

\* C8 amended: the user_account_id UPDATEs are issued once the user-account
\* pool has been captured and before the role pool exists; the role_id
\* UPDATEs are issued once both pools have been captured.
C8_UpdatesInTwoBatches ==
    [][/\ Issued("user_account_id") =>
            "user_accounts" \in captured /\ "role_ids" \notin captured
       /\ Issued("role_id") =>
            {"user_accounts", "role_ids"} \subseteq captured]_vars

C8_Witness ==
    /\ pc = END
    /\ updates.user_account_id > 0
    /\ updates.role_id > 0

\* Rows the current run added to relation r.
Added(r) == Len(db[Relations[r]]) - Len(db0[Relations[r]])

\* C9: a run with size K adds at most K rows to each of the five association
\* relations, and no relation ever holds two rows with the same composite
\* key.
C9_AtMostSizeNoDuplicate ==
    \A r \in 1..Len(Relations) :
        /\ Added(r) <= size
        /\ NoDuplicates(db[Relations[r]])

C9_Witness ==
    \E r \in 1..Len(Relations) :
        /\ size >= 2
        /\ assoc[r].attempts = size
        /\ assoc[r].duplicates >= 1
        /\ Added(r) >= 1

\* C10: an association INSERT that fails with anything but a duplicate
\* composite key (another integrity error included) aborts the run.
C10_OnlyDuplicatesTolerated ==
    \A r \in 1..Len(Relations) :
        assoc[r].last \in {"integrity", "error"} => err # "none"

\* The generator of stage name is asked for more rows than the pool it
\* takes them from holds.
Short(name) ==
    CASE name = "insert_members" -> Len(pool.address_ids) < size
      [] name = "insert_user_accounts" -> Len(pool.member_ids) < size
      [] name = "insert_taken_orders" ->
            Len(pool.member_ids) < size \/ Len(pool.address_ids) < size
      [] name = "insert_bills" -> Len(pool.taken_order_ids) < size
      [] OTHER -> FALSE

\* C11: when the members, user_accounts, taken_orders or bills stage is run
\* with a size larger than the pool it takes its rows from, the stage raises
\* ValueError and leaves the store exactly as it was (no row of the stage is
\* inserted).
C11_ValueErrorBeforeInsert ==
    [][\A s \in SizedStages :
          (Running(s) /\ Short(s)) => (err' = "ValueError" /\ db' = db)]_vars

C11_Witness ==
    /\ pc = StageIdx("insert_user_accounts")
    /\ Short("insert_user_accounts")
    /\ err = "ValueError"
    /\ db = GenStore

\* The tables and relations of the store held as sequences of rows, and
\* those held as row counts.
RowTables ==
    {"pizzeria", "member", "user_account", "recipe", "catalog_item",
     "taken_order", "bill", "has_permission_to", "contains_item",
     "requires_product", "has_product_in_stock", "has_keyword"}

CountTables ==
    {"address", "product", "order_status", "keyword", "permission", "role"}

\* C12: a run is additive: every row that existed when the run started is
\* still there with every attribute unchanged (only rows inserted by the
\* run itself are updated).
C12_OldRowsUnchanged ==
    /\ \A t \in CountTables : db[t] >= db0[t]
    /\ \A t \in RowTables :
        /\ Len(db[t]) >= Len(db0[t])
        /\ Prefix(db[t], Len(db0[t])) = db0[t]

\* The run was stopped by a gateway error raised in a stage other than
\* _insert_relations_many_to_many.
StoppedByGateway ==
    /\ err = "DatabaseError"
    /\ pc < StageIdx("insert_relations_many_to_many")

\* C13: a gateway error (an integrity conflict included) raised in a stage
\* outside the association populator stops the run: the stage does not
\* return, and from then on the run executes nothing, so the store keeps
\* exactly the rows committed before the error; the only step left is the
\* start of another run of the script, which finds those rows.
C13_GatewayErrorStopsRun ==
    [][/\ StoppedByGateway' /\ err = "none" => pc' = pc
       /\ StoppedByGateway =>
            /\ run' = run + 1
            /\ db' = db
            /\ db0' = db]_vars

C13_Witness ==
    /\ StoppedByGateway
    /\ Stages[pc] = "insert_members"
    /\ size >= 2
    /\ Len(db.member) = Len(db0.member) + 1

\* The current run started on an empty store and has completed.
CompletedOnEmpty == pc = END /\ db0 = EmptyDb

\* C14 as stated: a completed run on an empty store leaves 35 Product rows,
\* 22 Recipe rows, 22 CatalogItem rows and 4 OrderStatus rows, whatever the
\* batch size.
C14_FixedCounts22 ==
    CompletedOnEmpty =>
        /\ db.product = 35
        /\ Len(db.recipe) = 22
        /\ Len(db.catalog_item) = 22
        /\ db.order_status = 4

\* C14 amended: a completed run on an empty store leaves one Product row
\* per product name (35), one Recipe row per recipe name (23), one
\* CatalogItem row per Recipe (23) and one OrderStatus row per label (4),
\* whatever the batch size.
C14_FixedCounts ==
    CompletedOnEmpty =>
        /\ db.product = NProducts
        /\ Len(db.recipe) = NRecipes
        /\ Len(db.catalog_item) = NRecipes
        /\ db.order_status = NOrderStatus

C14_Witness ==
    /\ CompletedOnEmpty
    /\ size = MaxSize
    /\ Len(db.recipe) = 23
    /\ Len(db.catalog_item) = 23
    /\ db.product = 35
    /\ db.order_status = 4

\* In store d every Recipe row is the recipe_id of exactly one CatalogItem.
RecipesJoined(d) ==
    \A r \in 1..Len(d.recipe) :
        Cardinality({c \in 1..Len(d.catalog_item) :
                        d.catalog_item[c].recipe_id = r}) = 1

\* C15: the catalog items a run inserts reference exactly the recipes that
\* run inserted, one item per recipe; so a completed run on a store in
\* which every Recipe is referenced by exactly one CatalogItem (the empty
\* store, or the store left by completed runs) leaves such a store.
C15_RecipesJoinedOneToOne ==
    /\ Done("insert_catalog_items") =>
        /\ Len(db.catalog_item) - Len(db0.catalog_item)
              = Len(db.recipe) - Len(db0.recipe)
        /\ {db.catalog_item[c].recipe_id :
                c \in NewIds(Len(db0.catalog_item), Len(db.catalog_item))}
              = NewIds(Len(db0.recipe), Len(db.recipe))
    /\ (pc = END /\ RecipesJoined(db0)) => RecipesJoined(db)

C15_Witness ==
    /\ run = 2
    /\ pc = END
    /\ Len(db0.recipe) = NRecipes
    /\ RecipesJoined(db0)
    /\ Len(db.recipe) = 2 * NRecipes
    /\ RecipesJoined(db)

\* C16: a completed run with batch size N has inserted exactly N Address,
\* N Member, N UserAccount, N TakenOrder and N Bill rows, whatever the
\* store held when it started.
C16_ExactlySizeNewRows ==
    pc = END =>
        /\ db.address - db0.address = size
        /\ Len(db.member) - Len(db0.member) = size
        /\ Len(db.user_account) - Len(db0.user_account) = size
        /\ Len(db.taken_order) - Len(db0.taken_order) = size
        /\ Len(db.bill) - Len(db0.bill) = size

C16_Witness ==
    /\ pc = END
    /\ size >= 2
    /\ db0.address >= 1
    /\ Len(db0.member) >= 1
    /\ Len(db0.taken_order) >= 1
    /\ Len(db.bill) - Len(db0.bill) = size
    /\ Len(db.member) - Len(db0.member) = size

\* Exactly one of the two parent columns of a CatalogItem record is set.
OneParent(item) == (item.recipe_id # None) # (item.product_id # None)

\* C17: every CatalogItem record built by FakeCatalogItem (by a caller or by
\* catalog_items) has exactly one of recipe_id and product_id non-null, the
\* one its parent kind names; a parent kind other than 'recipe' and
\* 'product' raises AttributeError and yields no record.
C17_ExactlyOneParent ==
    [][/\ \A c \in 1..Len(db'.catalog_item) : OneParent(db'.catalog_item[c])
       /\ \A c \in 1..Len(catalog_items(pool.recipes)) :
            /\ catalog_items(pool.recipes)[c].error = "none"
            /\ OneParent(catalog_items(pool.recipes)[c])
       /\ \A parent \in ParentKinds, i \in 1..NProducts :
            LET item == FakeCatalogItem(parent, i)
            IN  CASE parent = "recipe" ->
                        /\ item.error = "none"
                        /\ item.recipe_id = i /\ item.product_id = None
                  [] parent = "product" ->
                        /\ item.error = "none"
                        /\ item.product_id = i /\ item.recipe_id = None
                  [] OTHER -> item.error = "AttributeError"
       /\ err' = "AttributeError" => db' = db]_vars

C17_Witness ==
    /\ err = "AttributeError"
    /\ \E c \in 1..Len(db.catalog_item) :
        db.catalog_item[c].recipe_id # None
    /\ \E c \in 1..Len(db.catalog_item) :
        db.catalog_item[c].product_id # None

\* C18: every TakenOrder row in the store has a non-null member_id,
\* address_id, pizzeria_id and status_id, each the identifier of a persisted
\* row of its table (for every batch size, those below 5 included).
C18_TakenOrderKeysValid ==
    \A t \in 1..Len(db.taken_order) :
        /\ db.taken_order[t].member_id \in 1..Len(db.member)
        /\ db.taken_order[t].address_id \in 1..db.address
        /\ db.taken_order[t].pizzeria_id \in 1..Len(db.pizzeria)
        /\ db.taken_order[t].status_id \in 1..db.order_status

\* The values of a dict pool (a sequence of <<key, value>>).
Values(d) == {d[i][2] : i \in 1..Len(d)}

\* C19: in every state of a run, every element of every pool is the
\* identifier of a persisted row of the pool's table; no pool holds a null.
C19_PoolsHoldOnlyIds ==
    /\ Range(pool.address_ids) \subseteq 1..db.address
    /\ Range(pool.pizzeria_ids) \subseteq 1..Len(db.pizzeria)
    /\ Range(pool.member_ids) \subseteq 1..Len(db.member)
    /\ Values(pool.user_accounts) \subseteq 1..Len(db.user_account)
    /\ Values(pool.recipes) \subseteq 1..Len(db.recipe)
    /\ Range(pool.product_ids) \subseteq 1..db.product
    /\ Range(pool.catalog_item_ids) \subseteq 1..Len(db.catalog_item)
    /\ Range(pool.order_status_ids) \subseteq 1..db.order_status
    /\ Range(pool.taken_order_ids) \subseteq 1..Len(db.taken_order)
    /\ Range(pool.keyword_ids) \subseteq 1..db.keyword
    /\ Range(pool.permission_ids) \subseteq 1..db.permission
    /\ Range(pool.role_ids) \subseteq 1..db.role

\* The stages whose generator is handed pools of the DatabaseFeeder.
PoolFedStages ==
    {"insert_pizzerias", "insert_members", "insert_user_accounts",
     "insert_taken_orders", "insert_bills"}

\* Lists s and t hold the same elements the same number of times.
SameContents(s, t) ==
    /\ Len(s) = Len(t)
    /\ \A x \in Range(s) \cup Range(t) :
        Cardinality({i \in 1..Len(s) : s[i] = x})
            = Cardinality({i \in 1..Len(t) : t[i] = x})

\* C20: a step of the pizzerias, members, user_accounts, taken_orders or
\* bills stage leaves every pool it passes to its generator with the same
\* elements and the same length as before.
C20_GeneratorsKeepPools ==
    [][(run' = run /\ pc <= Len(Stages) /\ Stages[pc] \in PoolFedStages) =>
          \A a \in Reads(Stages[pc]) : SameContents(pool[a], pool'[a])]_vars

\* The loop of callback r has made its last attempt in the current run.
LoopDone(r) ==
    \/ pc = END
    \/ pc = StageIdx("insert_relations_many_to_many") /\ cb > r

\* C21: for each association relation the populator makes exactly size
\* attempts, and once its loop is over the rows it added to the relation
\* number size minus the attempts that collided on the composite key.
C21_RowsAreSizeMinusCollisions ==
    \A r \in 1..Len(Relations) :
        LoopDone(r) =>
            /\ assoc[r].attempts = size
            /\ Added(r) = size - assoc[r].duplicates

\* The Pizzeria rows the current run inserted.
NewPizzerias == NewIds(Len(db0.pizzeria), Len(db.pizzeria))

\* C22: once _insert_pizzerias has returned, the run has inserted exactly 5
\* Pizzeria rows, whatever the batch size; the address_id of each is null
\* or the identifier of a persisted Address, and it is null only if the
\* address table held fewer than 5 rows when the pizzerias were generated.
C22_FivePizzerias ==
    Done("insert_pizzerias") =>
        /\ Cardinality(NewPizzerias) = 5
        /\ \A p \in NewPizzerias :
            /\ db.pizzeria[p] \in {None} \cup 1..db.address
            /\ db.pizzeria[p] = None => db.address < 5

C22_Witness ==
    /\ run = 2
    /\ Done("insert_pizzerias")
    /\ db.address >= 5
    /\ \A p \in NewPizzerias : db.pizzeria[p] # None
    /\ \E p \in 1..Len(db0.pizzeria) : db.pizzeria[p] = None
    /\ \E p \in 1..Len(db0.pizzeria) : db.pizzeria[p] # None

\* populate is under way / the run is over.
Populating == err = "none" /\ pc < END

Terminated == pc = END \/ err # "none"

\* C23: every run terminates, at END or at its first fatal error; on the
\* way the stages are executed in program order: a step of a run leaves pc
\* where it is or moves it to the next stage, a stage before the last one
\* that returns moves it by exactly one, and a run that has stopped executes
\* nothing more.
C23_RunTerminates ==
    /\ [][run' = run =>
            /\ ~Terminated
            /\ pc' \in {pc, pc + 1}
            /\ pc' = pc + 1 => err' = "none"
            /\ (err' = "none"
                  /\ pc < StageIdx("insert_relations_many_to_many"))
                 => pc' = pc + 1]_vars
    /\ Populating ~> Terminated

C23_Witness ==
    /\ run = 2
    /\ pc = END
    /\ size = MaxSize
    /\ \A r \in 1..Len(Relations) : assoc[r].attempts = size

====
